---- MODULE Spec2Model ----
(***************************************************************************)
(* A model of ScholarDock's PDF acquisition pipeline                       *)
(* (backend/services/pdf_downloader.py, class PDFDownloader) and of the    *)
(* batch endpoint that drives it (backend/api/main.py).                    *)
(*                                                                         *)
(* Text is modelled structurally.  A URL is a sequence of tokens, each     *)
(* token a fragment the code inspects ("http://", "/", ".", "pdf",         *)
(* "download", "?sequence=", ...); a substring test of the code is a       *)
(* contiguous-subsequence test on tokens.  A title is a sequence of        *)
(* characters.  asyncio is single threaded: a coroutine runs without       *)
(* interruption between two awaits that really suspend, so each action of  *)
(* the model is one such run, from one suspension point to the next.       *)
(***************************************************************************)
EXTENDS Integers, Sequences, FiniteSets, TLC

\* ------------------------------------------------------------------------
\* Bounds of the model
\* ------------------------------------------------------------------------

\* Number of articles in one batch handed to download_multiple_pdfs.
BatchSize == 2

\* Largest value of max_concurrent tried (the values are 1..MaxLimit).
MaxLimit == 2

\* Largest number of tokens that follow the prefix of a URL given to
\* _extract_pdf_urls.
MaxUrlTail == 3

\* Largest number of characters that follow the padding of a title given to
\* _sanitize_filename.
MaxTitleTail == 4

\* The largest num_results search is called with.
MaxResults == 21

\* The largest number of article divs on one result page.
MaxDivs == 11

\* ------------------------------------------------------------------------
\* Program constants
\* ------------------------------------------------------------------------

\* _download_single_pdf: "if recursion_depth > 3".
MaxRecursionDepth == 3

\* _sanitize_filename: "if len(filename) > 200".
MaxFilenameLen == 200

\* _download_with_browser: the number of entries of download_selectors.
NumSelectors == 7

\* HTTP status of a successful response ("response.status == 200").
StatusOK == 200

\* ------------------------------------------------------------------------
\* Text helpers
\* ------------------------------------------------------------------------

\* Python's None, as a value comparable with token sequences.
None == <<"None">>

\* Python truthiness of an Optional[str]: None and '' are false.
Truthy(s) == s # None /\ s # <<>>

\* str.lower() on one token or character.
LowerTok(c) ==
    CASE c = "PDF" -> "pdf"
      [] c = "P" -> "p"
      [] c = "D" -> "d"
      [] c = "F" -> "f"
      [] OTHER -> c

\* str.lower().
Lower(s) == [i \in 1..Len(s) |-> LowerTok(s[i])]

\* "pat in s": pat occurs in s as a contiguous run.
Contains(s, pat) ==
    \E i \in 0..(Len(s) - Len(pat)) :
        \A j \in 1..Len(pat) : s[i + j] = pat[j]

\* s.endswith(pat).
EndsWith(s, pat) ==
    /\ Len(s) >= Len(pat)
    /\ \A j \in 1..Len(pat) : s[Len(s) - Len(pat) + j] = pat[j]

\* s.startswith('http').
StartsWithHttp(s) == Len(s) >= 1 /\ s[1] = "http://"

\* s.rstrip('/').
RECURSIVE RStripSlash(_)
RStripSlash(s) ==
    IF Len(s) > 0 /\ s[Len(s)] = "/"
    THEN RStripSlash(SubSeq(s, 1, Len(s) - 1))
    ELSE s

\* Index of the first occurrence of pat in s, 0 when there is none.
FirstIndex(s, pat) ==
    IF Contains(s, pat)
    THEN CHOOSE i \in 1..(Len(s) - Len(pat) + 1) :
           /\ \A j \in 1..Len(pat) : s[i + j - 1] = pat[j]
           /\ \A k \in 1..(i - 1) : \E j \in 1..Len(pat) : s[k + j - 1] # pat[j]
    ELSE 0

\* s.split(pat)[0].
SplitHead(s, pat) ==
    IF Contains(s, pat) THEN SubSeq(s, 1, FirstIndex(s, pat) - 1) ELSE s

\* Index of the last token of s that ends in the character '/'.
LastSlash(s) ==
    IF \E i \in 1..Len(s) : s[i] \in {"/", "http://"}
    THEN CHOOSE i \in 1..Len(s) :
           /\ s[i] \in {"/", "http://"}
           /\ \A k \in (i + 1)..Len(s) : s[k] \notin {"/", "http://"}
    ELSE 0

\* '/'.join(url.split('/')[:-1]) + '/' : url up to and including its last
\* '/'; a url without '/' gives '/'.
BaseUrl(url) ==
    IF LastSlash(url) = 0 THEN <<"/">> ELSE SubSeq(url, 1, LastSlash(url))

\* urllib.parse.urljoin(base, ref) for a base that ends in '/': an absolute
\* ref replaces the base, a ref that starts with '/' replaces the path, any
\* other ref is appended to the base directory.
UrlJoin(base, ref) ==
    IF StartsWithHttp(ref) THEN ref
    ELSE IF Len(ref) > 0 /\ ref[1] = "/" /\ StartsWithHttp(base) /\ Len(base) >= 2
         THEN SubSeq(base, 1, 2) \o ref
         ELSE base \o ref

\* ------------------------------------------------------------------------
\* PDFDownloader: pure helpers
\* ------------------------------------------------------------------------

\* The characters re.sub(r'[<>:"/\\|?*]', '_', ...) replaces.
IllegalChars == {"<", ">", ":", "\"", "/", "\\", "|", "?", "*"}

DotPdfChars == <<".", "p", "d", "f">>

\* _sanitize_filename(filename): replace, truncate, then enforce ".pdf".
SanitizeFilename(filename) ==
    LET replaced == [i \in 1..Len(filename) |->
                        IF filename[i] \in IllegalChars THEN "_" ELSE filename[i]]
        cut == IF Len(replaced) > MaxFilenameLen
               THEN SubSeq(replaced, 1, MaxFilenameLen)
               ELSE replaced
    IN  IF EndsWith(Lower(cut), DotPdfChars) THEN cut ELSE cut \o DotPdfChars

\* IsValidPdfUrl that recognises no URL.
IsValidPdfUrlNever(url) == FALSE

\* _is_valid_pdf_url(url): one of '.pdf', 'pdf', 'download', 'attachment'
\* occurs in url.lower().
IsValidPdfUrl(url) ==
    /\ Truthy(url)
    /\ \E ind \in {<<".", "pdf">>, <<"pdf">>, <<"download">>, <<"attachment">>} :
          Contains(Lower(url), ind)

EthHost == <<"research-collection.ethz.ch">>
BitstreamHandle == <<"bitstream", "/", "handle">>
SequenceParam == <<"?sequence=">>
DownloadSuffix == <<"/", "download">>

\* IsEthBitstream that recognises no URL.
IsEthBitstreamNever(url) == FALSE

\* The ETH special case shared by _extract_pdf_urls and the resolver.
IsEthBitstream(url) == Contains(url, EthHost) /\ Contains(url, BitstreamHandle)

\* pdf_suffixes of _extract_pdf_urls, in order.
PdfSuffixes ==
    << <<"/", "pdf">>, <<".", "pdf">>, <<"/", "download">>,
       <<"/", "attachment">>, <<"?format=", "pdf">>, <<"&format=", "pdf">> >>

\* AppendSuffixes that walks pdf_suffixes from its end.
RECURSIVE AppendSuffixesDescending(_, _, _)
AppendSuffixesDescending(base_url, article_url, k) ==
    IF k > Len(PdfSuffixes) THEN <<>>
    ELSE LET pdf_url == base_url \o PdfSuffixes[Len(PdfSuffixes) + 1 - k]
         IN  (IF pdf_url # article_url THEN <<pdf_url>> ELSE <<>>)
             \o AppendSuffixesDescending(base_url, article_url, k + 1)

\* The loop "for suffix in pdf_suffixes", from suffix k on.
RECURSIVE AppendSuffixes(_, _, _)
AppendSuffixes(base_url, article_url, k) ==
    IF k > Len(PdfSuffixes) THEN <<>>
    ELSE LET pdf_url == base_url \o PdfSuffixes[k]
         IN  (IF pdf_url # article_url THEN <<pdf_url>> ELSE <<>>)
             \o AppendSuffixes(base_url, article_url, k + 1)

\* ExtractPdfUrls without the suffix patterns: the URL itself, when it looks
\* like a PDF link.
ExtractPdfUrlsDirect(article_url) ==
    IF IsValidPdfUrl(article_url) THEN <<article_url>> ELSE <<>>

\* _extract_pdf_urls(article_url), for a string article_url.
ExtractPdfUrls(article_url) ==
    IF IsEthBitstream(article_url)
    THEN <<article_url>>
         \o (IF Contains(article_url, SequenceParam)
                /\ SplitHead(article_url, SequenceParam) # article_url
             THEN <<SplitHead(article_url, SequenceParam)>>
             ELSE <<>>)
    ELSE (IF IsValidPdfUrl(article_url) THEN <<article_url>> ELSE <<>>)
         \o AppendSuffixes(RStripSlash(article_url), article_url, 1)

\* browser_required_sites of _should_use_browser.
BrowserRequiredSites ==
    { <<"research-collection.ethz.ch">>, <<"ieeexplore.ieee.org">>,
      <<"link.springer.com">>, <<"dl.acm.org">> }

\* ShouldUseBrowser that sends every host to the browser.
ShouldUseBrowserAlways(url) == TRUE

\* _should_use_browser(url).
ShouldUseBrowser(url) == \E site \in BrowserRequiredSites : Contains(url, site)

\* ------------------------------------------------------------------------
\* The interstitial resolver
\* ------------------------------------------------------------------------

\* What BeautifulSoup finds in an HTML body, as far as the resolver looks:
\*   meta    the url= part of the first <meta http-equiv=refresh>, or None
\*   script  the first location assignment found in a <script>, or None
\*   near    the hrefs of the links next to "download is starting" text
\*   links   the hrefs of all links of the page
HtmlBody(meta, script, near, links) ==
    [meta |-> meta, script |-> script, near |-> near, links |-> links]

\* "if href.startswith('http'): return href / else: return urljoin(...)".
Absolute(url, href) ==
    IF StartsWithHttp(href) THEN href ELSE UrlJoin(BaseUrl(url), href)

\* The first element of hrefs that satisfies the rule's filter, or None.
RECURSIVE FirstValidPdfUrl(_, _)
FirstValidPdfUrl(hrefs, k) ==
    IF k > Len(hrefs) THEN None
    ELSE IF Truthy(hrefs[k]) /\ IsValidPdfUrl(hrefs[k]) THEN hrefs[k]
    ELSE FirstValidPdfUrl(hrefs, k + 1)

RECURSIVE FirstDotPdf(_, _)
FirstDotPdf(hrefs, k) ==
    IF k > Len(hrefs) THEN None
    ELSE IF Truthy(hrefs[k]) /\ EndsWith(Lower(hrefs[k]), <<".", "pdf">>) THEN hrefs[k]
    ELSE FirstDotPdf(hrefs, k + 1)

\* AddFailed whose update is lost.
AddFailedDropped(failed, url) == failed

\* self.failed_urls.add(url).
AddFailed(failed, url) == failed \cup {url}

\* The ETH branch of _handle_auto_download_page: the URL it returns and the
\* negative cache it leaves.
EthResolve(url, failed) ==
    IF Contains(url, SequenceParam) /\ SplitHead(url, SequenceParam) \notin failed
    THEN [ret |-> SplitHead(url, SequenceParam), failed |-> failed]
    ELSE IF EndsWith(url, DownloadSuffix)
    THEN [ret |-> None, failed |-> AddFailed(failed, url)]
    ELSE IF (RStripSlash(url) \o DownloadSuffix) \notin failed
    THEN [ret |-> RStripSlash(url) \o DownloadSuffix, failed |-> failed]
    ELSE [ret |-> None, failed |-> failed]

\* GenericResolve without the meta refresh rule.
GenericResolveNoMeta(url, content) ==
    IF content.script # None THEN Absolute(url, Lower(content.script))
    ELSE IF FirstValidPdfUrl(content.near, 1) # None
    THEN Absolute(url, FirstValidPdfUrl(content.near, 1))
    ELSE IF FirstDotPdf(content.links, 1) # None
    THEN Absolute(url, FirstDotPdf(content.links, 1))
    ELSE None

\* The generic rules of _handle_auto_download_page, first match wins.  The
\* meta and script targets are taken from lowercased text.
GenericResolve(url, content) ==
    IF content.meta # None THEN Absolute(url, Lower(content.meta))
    ELSE IF content.script # None THEN Absolute(url, Lower(content.script))
    ELSE IF FirstValidPdfUrl(content.near, 1) # None
    THEN Absolute(url, FirstValidPdfUrl(content.near, 1))
    ELSE IF FirstDotPdf(content.links, 1) # None
    THEN Absolute(url, FirstDotPdf(content.links, 1))
    ELSE None

\* HandleAutoDownloadPage without the ETH branch: text analysis only.
HandleAutoDownloadPageGeneric(url, content, failed) ==
    [ret |-> GenericResolve(url, content), failed |-> failed]

\* _handle_auto_download_page(url, content) with self.failed_urls = failed.
HandleAutoDownloadPage(url, content, failed) ==
    IF IsEthBitstream(url)
    THEN EthResolve(url, failed)
    ELSE [ret |-> GenericResolve(url, content), failed |-> failed]

\* ------------------------------------------------------------------------
\* HTTP responses and their classification
\* ------------------------------------------------------------------------

NoBody == HtmlBody(None, None, <<>>, <<>>)

\* 'application/pdf' in content_type or 'application/octet-stream' in ...
IsPdfType(ctype) == ctype \in {"application/pdf", "application/octet-stream"}

\* 'text/html' in content_type.
IsHtmlType(ctype) == ctype = "text/html"

\* Classify without the check of the %PDF signature.
ClassifyByHeader(r) ==
    IF r.status = StatusOK
    THEN IF IsPdfType(r.ctype) THEN "Valid"
         ELSE IF IsHtmlType(r.ctype) THEN "RedirectPage" ELSE "Reject"
    ELSE "Reject"

\* Classify without the check "response.status == 200".
ClassifyIgnoringStatus(r) ==
    IF IsPdfType(r.ctype)
    THEN (IF r.sig THEN "Valid" ELSE "Reject")
    ELSE IF IsHtmlType(r.ctype) THEN "RedirectPage" ELSE "Reject"

\* The branch _download_single_pdf takes on a response: "Valid" writes the
\* body, "RedirectPage" runs the resolver, "Reject" gives up on the URL.
Classify(r) ==
    IF r.status = StatusOK
    THEN IF IsPdfType(r.ctype)
         THEN (IF r.sig THEN "Valid" ELSE "Reject")
         ELSE IF IsHtmlType(r.ctype) THEN "RedirectPage" ELSE "Reject"
    ELSE "Reject"

\* What open(filepath, 'wb').write(content) leaves on disk, with where it
\* came from: sig says whether the bytes start with %PDF.
FileFromResponse(r) ==
    [via |-> "http", status |-> r.status, ctype |-> r.ctype, sig |-> r.sig]

FileFromBrowser(via, sig) ==
    [via |-> via, status |-> StatusOK, ctype |-> "application/pdf", sig |-> sig]

NoWrite == [via |-> "none", status |-> 0, ctype |-> "", sig |-> FALSE]

\* ------------------------------------------------------------------------
\* The inputs of the model
\* ------------------------------------------------------------------------

Generic == <<"http://", "x.org", "/">>
Eth == <<"http://", "research-collection.ethz.ch", "/", "bitstream", "/", "handle", "/", "1">>

UrlPlain == Generic \o <<"a">>
UrlLanding == Generic \o <<"b">>
UrlEthDownload == Eth \o DownloadSuffix
UrlEthSequence == Eth \o <<"?sequence=", "1">>
UrlMirrorA == Generic \o <<"m">>
UrlMirrorB == Generic \o <<"n">>

\* A dict without the key 'pdf_url'.
Absent == <<"Absent">>

Article(title, url, pdf_url) == [title |-> title, url |-> url, pdf_url |-> pdf_url]

\* The articles batches are made of.  The first two sanitize to the same
\* file name and share their URL, two carry a preferred URL, one carries
\* "pdf_url": null; that one stands at two places, so that a batch of three
\* holds it next to two others.
Catalogue ==
    << Article(<<"A", ":">>, UrlEthDownload, Absent),
       Article(<<"A", "?">>, UrlEthDownload, Absent),
       Article(<<"C">>, UrlLanding, None),
       Article(<<"B">>, UrlLanding, UrlPlain),
       Article(<<"D">>, UrlLanding, UrlEthSequence),
       Article(<<"C">>, UrlLanding, None) >>

\* Articles of a generic host whose URL ends in .pdf, in either case; one
\* carries it as its preferred URL.
UrlPdf == Generic \o <<"e", ".", "pdf">>
UrlPdfUpper == Generic \o <<"f", ".", "PDF">>
UrlPdfDeep == Generic \o <<"a", "/", "g", ".", "pdf">>
PdfCatalogue ==
    << Article(<<"E">>, UrlPdf, Absent),
       Article(<<"F">>, UrlLanding, UrlPdfUpper),
       Article(<<"G">>, UrlPdfDeep, Absent) >>

\* A batch: BatchSize consecutive articles of the catalogue, from any start.
Batch(start) ==
    [i \in 1..BatchSize |-> Catalogue[((start + i - 2) % Len(Catalogue)) + 1]]

\* The HTML pages servers answer with.  The mirrors point at each other.
Bodies ==
    { NoBody,
      HtmlBody(UrlMirrorA, None, <<>>, <<>>),
      HtmlBody(None, UrlMirrorB, <<>>, <<>>),
      HtmlBody(None, None, <<UrlEthDownload>>, <<UrlEthDownload>>) }

\* The responses servers answer with.
Responses ==
    { [status |-> StatusOK, ctype |-> c, sig |-> g, body |-> NoBody] :
          c \in {"application/pdf", "application/octet-stream", "text/plain"},
          g \in BOOLEAN }
    \cup
    { [status |-> StatusOK, ctype |-> "text/html", sig |-> FALSE, body |-> b] :
          b \in Bodies }
    \cup
    { [status |-> 404, ctype |-> "application/pdf", sig |-> TRUE, body |-> NoBody],
      [status |-> 404, ctype |-> "text/html", sig |-> FALSE,
       body |-> HtmlBody(UrlMirrorA, None, <<>>, <<>>)] }

\* What page.query_selector and element.get_attribute('href') give: no
\* element, an element without href, an element with a relative .pdf href.
Elements == { "absent", "no_href", "pdf_href" }
ElementHref == <<"p", ".", "pdf">>

\* ------------------------------------------------------------------------
\* State
\* ------------------------------------------------------------------------

VARIABLES
    articles,        \* the batch: the argument of download_multiple_pdfs
    max_concurrent,  \* its concurrency limit
    semaphore,       \* free permits of asyncio.Semaphore(max_concurrent)
    pc,              \* per task: where download_with_semaphore stands
    req,             \* per task: the GET or the browser step it awaits
    failed_urls,     \* PDFDownloader.failed_urls
    files,           \* the download directory: file name -> content
    results,         \* the dict download_multiple_pdfs builds
    batch,           \* "running", "returned" (gather is back), "responded"
    response,        \* formatted_results of the endpoint
    skipped,         \* URLs _download_single_pdf refused from the cache
    first_get,       \* per task: the first URL it sent a GET to
    pending,         \* per task: the URLs of its GETs that await a response
    call             \* a call of a pure helper: function, argument, result

vars == << articles, max_concurrent, semaphore, pc, req, failed_urls, files,
           results, batch, response, skipped, first_get, pending, call >>

Tasks == 1..BatchSize

\* The names files of the download directory can have.
FileNames ==
    { SanitizeFilename(Catalogue[i].title) : i \in 1..Len(Catalogue) }
    \cup { SanitizeFilename(PdfCatalogue[i].title) : i \in 1..Len(PdfCatalogue) }

\* Exists that never finds the file.
ExistsNever(fs, name) == FALSE

\* Path.exists().
Exists(fs, name) == fs[name].via # "none"

NoReq == [url |-> None, depth |-> 0, origin |-> "none", idx |-> 0, gets |-> 0]

\* No helper is being called.
NoCall == [fn |-> "none", arg |-> None, ret |-> None]

Init ==
    /\ \E start \in 1..Len(Catalogue) : articles = Batch(start)
    /\ max_concurrent \in 1..MaxLimit
    /\ semaphore = max_concurrent
    /\ pc = [t \in Tasks |-> "waiting"]
    /\ req = [t \in Tasks |-> NoReq]
    /\ failed_urls = {}
    /\ files = [n \in FileNames |-> NoWrite]
    /\ results = [successful |-> <<>>, failed |-> <<>>, total |-> BatchSize]
    /\ batch = "running"
    /\ response = <<>>
    /\ skipped = {}
    /\ first_get = [t \in Tasks |-> None]
    /\ pending = [t \in Tasks |-> {}]
    /\ call = NoCall

\* ------------------------------------------------------------------------
\* One run of a task, from one suspension point to the next
\* ------------------------------------------------------------------------

\* ArticleUrl that ignores 'pdf_url'.
ArticleUrlLanding(article) == article.url

\* article.get('pdf_url', article['url']).
ArticleUrl(article) ==
    IF article.pdf_url = Absent THEN article.url ELSE article.pdf_url

\* The locals of download_article_pdf for each article of the catalogue.
CatalogueSet ==
    { Catalogue[i] : i \in 1..Len(Catalogue) }
    \cup { PdfCatalogue[i] : i \in 1..Len(PdfCatalogue) }
FilepathOf == [a \in CatalogueSet |-> SanitizeFilename(a.title)]
PdfUrlsOf ==
    [a \in CatalogueSet |->
        IF ArticleUrl(a) = None THEN <<>> ELSE ExtractPdfUrls(ArticleUrl(a))]

\* Where a task stands after a run, and what the run did:
\*   pc, req   the suspension point reached ("done": returned, "raised")
\*   failed    self.failed_urls
\*   skips     URLs refused because they were in failed_urls
\*   write     the content written to the task's file, or NoWrite
\*   ret       what download_article_pdf returned: "path", "none" or "-"
Outcome(p, r, failed, skips, write, ret) ==
    [pc |-> p, req |-> r, failed |-> failed, skips |-> skips,
     write |-> write, ret |-> ret]

\* DepthExceeded without a limit.
DepthNeverExceeded(recursion_depth) == FALSE

\* _download_single_pdf: "if recursion_depth > 3: return False".
DepthExceeded(recursion_depth) == recursion_depth > MaxRecursionDepth

\* KnownFailed that never consults the cache.
KnownFailedIgnored(url, failed) == FALSE

\* _download_single_pdf: "if url in self.failed_urls: return False".
KnownFailed(url, failed) == url \in failed

\* The loop "for pdf_url in pdf_urls" of download_article_pdf from candidate
\* i on, then the browser fallback: runs until a GET is sent, the browser is
\* started or the function returns.
RECURSIVE TryCandidates(_, _, _, _, _)
TryCandidates(article_url, pdf_urls, i, failed, skips) ==
    IF i > Len(pdf_urls)
    THEN IF ShouldUseBrowser(article_url)
         THEN Outcome("browser_wait", NoReq, failed, skips, NoWrite, "-")
         ELSE Outcome("done", NoReq, failed, skips, NoWrite, "none")
    ELSE IF DepthExceeded(0)
    THEN TryCandidates(article_url, pdf_urls, i + 1, failed, skips)
    ELSE IF KnownFailed(pdf_urls[i], failed)
    THEN TryCandidates(article_url, pdf_urls, i + 1, failed, skips \cup {pdf_urls[i]})
    ELSE Outcome("fetching",
                 [url |-> pdf_urls[i], depth |-> 0, origin |-> "candidate",
                  idx |-> i, gets |-> 1],
                 failed, skips, NoWrite, "-")

\* BrowserFailed without the handlers "except ImportError" and "except
\* Exception": the fault leaves download_article_pdf.
BrowserFailedRaises(failed, skips) ==
    Outcome("raised", NoReq, failed, skips, NoWrite, "-")

\* The end of _download_with_browser after a fault or after the last
\* selector: "return False", and download_article_pdf returns None.
BrowserFailed(failed, skips) ==
    Outcome("done", NoReq, failed, skips, NoWrite, "none")

\* The loop "for selector in download_selectors" of _download_with_browser
\* from selector k on: the next query_selector, or the end of the loop,
\* where the function returns False.
TrySelectors(k, failed, skips) ==
    IF k > NumSelectors
    THEN BrowserFailed(failed, skips)
    ELSE Outcome("browser_query", [NoReq EXCEPT !.origin = "selector", !.idx = k],
                 failed, skips, NoWrite, "-")

\* page.expect_download() / element.click() for selector k.
ClickSelector(k, failed, skips) ==
    Outcome("browser_click", [NoReq EXCEPT !.origin = "selector", !.idx = k],
            failed, skips, NoWrite, "-")

\* ChainFailed that gives up the target at the first failed call.
ChainFailedAborts(article_url, pdf_urls, r, failed, skips) ==
    Outcome("done", NoReq, failed, skips, NoWrite, "none")

\* A call of _download_single_pdf returned False: the candidate loop goes
\* on, or the browser fallback clicks the element it found.
ChainFailed(article_url, pdf_urls, r, failed, skips) ==
    IF r.origin = "candidate"
    THEN TryCandidates(article_url, pdf_urls, r.idx + 1, failed, skips)
    ELSE ClickSelector(r.idx, failed, skips)

\* _download_single_pdf(url, filepath, recursion_depth) up to its GET, for a
\* call made within the chain of request r.
EnterSingle(article_url, pdf_urls, r, url, recursion_depth, failed, skips) ==
    IF DepthExceeded(recursion_depth)
    THEN ChainFailed(article_url, pdf_urls, r, failed, skips)
    ELSE IF KnownFailed(url, failed)
    THEN ChainFailed(article_url, pdf_urls, r, failed, skips \cup {url})
    ELSE Outcome("fetching",
                 [url |-> url, depth |-> recursion_depth, origin |-> r.origin,
                  idx |-> r.idx, gets |-> r.gets + 1],
                 failed, skips, NoWrite, "-")

\* IsNewUrl that accepts the URL just fetched.
IsNewUrlAnyTruthy(actual_pdf_url, url) == Truthy(actual_pdf_url)

\* "if actual_pdf_url and actual_pdf_url != url".
IsNewUrl(actual_pdf_url, url) == Truthy(actual_pdf_url) /\ actual_pdf_url # url

\* Downloaded that goes on with the next candidate after the write.
DownloadedContinues(article_url, pdf_urls, r, resp, failed) ==
    [ ChainFailed(article_url, pdf_urls, r, failed, {})
        EXCEPT !.write = FileFromResponse(resp) ]

\* The body was written to filepath: _download_single_pdf returns True up
\* its chain of calls, and its caller returns the path.
Downloaded(article_url, pdf_urls, r, resp, failed) ==
    Outcome("done", NoReq, failed, {}, FileFromResponse(resp), "path")

\* _download_single_pdf from the response of its GET on.
OnResponse(article_url, pdf_urls, r, resp, failed) ==
    IF Classify(resp) = "Valid"
    THEN Downloaded(article_url, pdf_urls, r, resp, failed)
    ELSE IF Classify(resp) = "RedirectPage"
    THEN LET res == HandleAutoDownloadPage(r.url, resp.body, failed)
         IN  IF IsNewUrl(res.ret, r.url)
             THEN EnterSingle(article_url, pdf_urls, r, res.ret, r.depth + 1,
                              res.failed, {})
             ELSE ChainFailed(article_url, pdf_urls, r, res.failed, {})
    ELSE ChainFailed(article_url, pdf_urls, r, failed, {})

\* download_article_pdf from its start to its first suspension point.
\* "Raise" stands for the TypeError of _extract_pdf_urls(None).
StartArticle(article, fs, failed) ==
    IF Exists(fs, SanitizeFilename(article.title))
    THEN Outcome("done", NoReq, failed, {}, NoWrite, "path")
    ELSE IF ArticleUrl(article) = None
    THEN Outcome("raised", NoReq, failed, {}, NoWrite, "-")
    ELSE TryCandidates(ArticleUrl(article), ExtractPdfUrls(ArticleUrl(article)),
                       1, failed, {})

\* ------------------------------------------------------------------------
\* The batch: download_multiple_pdfs and the endpoint download_pdfs
\* ------------------------------------------------------------------------

\* Locked for a semaphore that never blocks.
LockedNever(sem) == FALSE

\* asyncio.Semaphore.locked().
Locked(sem) == sem <= 0

\* Release that keeps the permit.
ReleaseKept(sem) == sem

\* "async with semaphore": the permit goes back on every exit of the block,
\* also on an exit by exception.
Release(sem) == sem + 1

\* GatherDone for gather(*tasks): the first exception of a task ends the wait.
GatherFirstException(p) ==
    \/ \A t \in Tasks : p[t] \in {"done", "raised"}
    \/ \E t \in Tasks : p[t] = "raised"

\* asyncio.gather(*tasks, return_exceptions=True) is back when every task
\* has ended, by return or by exception.
GatherDone(p) == \A t \in Tasks : p[t] \in {"done", "raised"}

\* Record that puts the entry at the head of its list.
RecordAtHead(res, article, ret) ==
    IF ret = "path"
    THEN [res EXCEPT !.successful =
             << [title |-> article.title,
                 filepath |-> SanitizeFilename(article.title)] >> \o @]
    ELSE IF ret = "none"
    THEN [res EXCEPT !.failed =
             << [title |-> article.title, url |-> ArticleUrl(article)] >> \o @]
    ELSE res

\* The two branches after "filepath = await self.download_article_pdf(...)".
Record(res, article, ret) ==
    IF ret = "path"
    THEN [res EXCEPT !.successful =
             Append(@, [title |-> article.title,
                        filepath |-> SanitizeFilename(article.title)])]
    ELSE IF ret = "none"
    THEN [res EXCEPT !.failed =
             Append(@, [title |-> article.title, url |-> ArticleUrl(article)])]
    ELSE res

\* formatted_results of download_pdfs.
Formatted(res) ==
    [i \in 1..Len(res.successful) |->
        [success |-> TRUE, title |-> res.successful[i].title,
         where |-> res.successful[i].filepath]]
    \o
    [i \in 1..Len(res.failed) |->
        [success |-> FALSE, title |-> res.failed[i].title,
         where |-> res.failed[i].url]]

\* Answered for a GET that is left behind without waiting for its response.
AnsweredNever(pend, r) == pend

\* "async with self.session.get(url, ...) as response" is back: the GET of
\* request r no longer awaits its response.
Answered(pend, r) == pend \ {r.url}

\* Task t has run up to the suspension point of outcome out, holding the
\* semaphore at sem when the run began.
Apply(t, out, sem) ==
    /\ pc' = [pc EXCEPT ![t] = out.pc]
    /\ req' = [req EXCEPT ![t] = out.req]
    /\ failed_urls' = out.failed
    /\ skipped' = skipped \cup out.skips
    /\ files' = IF out.write.via # "none"
                THEN [files EXCEPT ![FilepathOf[articles[t]]] = out.write]
                ELSE files
    /\ results' = Record(results, articles[t], out.ret)
    /\ semaphore' = IF out.pc \in {"done", "raised"} THEN Release(sem) ELSE sem
    /\ first_get' = IF first_get[t] = None /\ out.pc = "fetching"
                    THEN [first_get EXCEPT ![t] = out.req.url]
                    ELSE first_get
    /\ pending' = [pending EXCEPT ![t] =
                       (IF pc[t] = "fetching" THEN Answered(@, req[t]) ELSE @)
                       \cup (IF out.pc = "fetching" THEN {out.req.url} ELSE {})]
    /\ UNCHANGED << articles, max_concurrent, batch, response, call >>

TaskUrl(t) == ArticleUrl(articles[t])
TaskCandidates(t) == PdfUrlsOf[articles[t]]

\* download_with_semaphore(article): the semaphore is acquired, in the order
\* the tasks were created, and download_article_pdf runs to its first await.
Acquire(t) ==
    /\ pc[t] = "waiting"
    /\ ~Locked(semaphore)
    /\ \A u \in Tasks : u < t => pc[u] # "waiting"
    /\ Apply(t, StartArticle(articles[t], files, failed_urls), semaphore - 1)

\* The GET of task t is answered.
FetchReturns(t, resp) ==
    /\ pc[t] = "fetching"
    /\ Apply(t, OnResponse(TaskUrl(t), TaskCandidates(t), req[t], resp, failed_urls),
             semaphore)

\* The GET of task t fails (timeout, connection reset): "except Exception".
FetchRaises(t) ==
    /\ pc[t] = "fetching"
    /\ Apply(t, ChainFailed(TaskUrl(t), TaskCandidates(t), req[t], failed_urls, {}),
             semaphore)

\* _download_with_browser up to the end of method 1: playwright is missing or
\* fails, or no PDF response comes, or one comes with the body given.
BrowserWait(t, o) ==
    /\ pc[t] = "browser_wait"
    /\ Apply(t,
             CASE o = "unavailable" -> BrowserFailed(failed_urls, {})
               [] o = "pdf_body" ->
                    Outcome("done", NoReq, failed_urls, {},
                            FileFromBrowser("browser_response", TRUE), "path")
               [] OTHER -> TrySelectors(1, failed_urls, {}),
             semaphore)

\* page.query_selector(selector) and element.get_attribute('href').
BrowserQuery(t, el) ==
    /\ pc[t] = "browser_query"
    /\ Apply(t,
             CASE el = "absent" -> TrySelectors(req[t].idx + 1, failed_urls, {})
               [] el = "pdf_href" ->
                    EnterSingle(TaskUrl(t), TaskCandidates(t), req[t],
                                UrlJoin(BaseUrl(TaskUrl(t)), ElementHref), 0,
                                failed_urls, {})
               [] OTHER -> ClickSelector(req[t].idx, failed_urls, {}),
             semaphore)

\* page.expect_download() around element.click(): a timeout, or a download
\* that download.save_as(filepath) stores whatever its bytes are.
BrowserClick(t, o) ==
    /\ pc[t] = "browser_click"
    /\ Apply(t,
             IF o = "timeout"
             THEN TrySelectors(req[t].idx + 1, failed_urls, {})
             ELSE Outcome("done", NoReq, failed_urls, {},
                          FileFromBrowser("browser_click", o = "pdf_body"), "path"),
             semaphore)

\* "await asyncio.gather(...)" is back and download_multiple_pdfs returns.
GatherReturns ==
    /\ batch = "running"
    /\ GatherDone(pc)
    /\ batch' = "returned"
    /\ UNCHANGED << articles, max_concurrent, semaphore, pc, req, failed_urls,
                    files, results, response, skipped, first_get, pending, call >>

\* download_pdfs builds its response from the results.
Respond ==
    /\ batch = "returned"
    /\ batch' = "responded"
    /\ response' = Formatted(results)
    /\ UNCHANGED << articles, max_concurrent, semaphore, pc, req, failed_urls,
                    files, results, skipped, first_get, pending, call >>

Next ==
    \/ \E t \in Tasks : Acquire(t)
    \/ \E t \in Tasks, resp \in Responses : FetchReturns(t, resp)
    \/ \E t \in Tasks : FetchRaises(t)
    \/ \E t \in Tasks, o \in {"unavailable", "timeout", "pdf_body", "other_body"} :
          BrowserWait(t, o)
    \/ \E t \in Tasks, el \in Elements : BrowserQuery(t, el)
    \/ \E t \in Tasks, o \in {"timeout", "pdf_body", "other_body"} : BrowserClick(t, o)
    \/ GatherReturns
    \/ Respond

Spec == Init /\ [][Next]_vars

\* One step of task t: the event loop runs it when it can take the
\* semaphore, when its GET is answered or times out (ClientTimeout), and
\* when an operation of the browser is back or times out.
TaskStep(t) ==
    \/ Acquire(t)
    \/ \E resp \in Responses : FetchReturns(t, resp)
    \/ FetchRaises(t)
    \/ \E o \in {"unavailable", "timeout", "pdf_body", "other_body"} : BrowserWait(t, o)
    \/ \E el \in Elements : BrowserQuery(t, el)
    \/ \E o \in {"timeout", "pdf_body", "other_body"} : BrowserClick(t, o)

\* The pipeline on an event loop that runs every task that can run, with
\* fetches that return or time out.
SpecFair ==
    /\ Init
    /\ [][Next]_vars
    /\ \A t \in Tasks : WF_vars(TaskStep(t))
    /\ WF_vars(GatherReturns)
    /\ WF_vars(Respond)

\* The pipeline when every server answers 200 text/html: each GET meets a
\* redirect page.
HtmlResponses == { r \in Responses : Classify(r) = "RedirectPage" }

NextHtml ==
    \/ \E t \in Tasks : Acquire(t)
    \/ \E t \in Tasks, resp \in HtmlResponses : FetchReturns(t, resp)
    \/ \E t \in Tasks, o \in {"unavailable", "timeout", "pdf_body", "other_body"} :
          BrowserWait(t, o)
    \/ \E t \in Tasks, el \in Elements : BrowserQuery(t, el)
    \/ \E t \in Tasks, o \in {"timeout", "pdf_body", "other_body"} : BrowserClick(t, o)
    \/ GatherReturns
    \/ Respond

SpecHtml == Init /\ [][NextHtml]_vars

\* The pipeline when every server answers 404 Not Found.
NotFoundResponses == { r \in Responses : r.status = 404 }

Next404 ==
    \/ \E t \in Tasks : Acquire(t)
    \/ \E t \in Tasks, resp \in NotFoundResponses : FetchReturns(t, resp)
    \/ \E t \in Tasks, o \in {"unavailable", "timeout", "pdf_body", "other_body"} :
          BrowserWait(t, o)
    \/ \E t \in Tasks, el \in Elements : BrowserQuery(t, el)
    \/ \E t \in Tasks, o \in {"timeout", "pdf_body", "other_body"} : BrowserClick(t, o)
    \/ GatherReturns
    \/ Respond

Spec404 == Init /\ [][Next404]_vars

\* A batch of articles whose URL ends in .pdf.
InitPdf ==
    /\ articles \in [Tasks -> { PdfCatalogue[i] : i \in 1..Len(PdfCatalogue) }]
    /\ max_concurrent \in 1..MaxLimit
    /\ semaphore = max_concurrent
    /\ pc = [t \in Tasks |-> "waiting"]
    /\ req = [t \in Tasks |-> NoReq]
    /\ failed_urls = {}
    /\ files = [n \in FileNames |-> NoWrite]
    /\ results = [successful |-> <<>>, failed |-> <<>>, total |-> BatchSize]
    /\ batch = "running"
    /\ response = <<>>
    /\ skipped = {}
    /\ first_get = [t \in Tasks |-> None]
    /\ pending = [t \in Tasks |-> {}]
    /\ call = NoCall

\* The responses that carry a PDF: 200, a PDF content type, a %PDF body.
ValidResponses ==
    { r \in Responses : r.status = StatusOK /\ IsPdfType(r.ctype) /\ r.sig }

\* The pipeline for such a batch when every server answers with a PDF.
NextValidPdf ==
    \/ \E t \in Tasks : Acquire(t)
    \/ \E t \in Tasks, resp \in ValidResponses : FetchReturns(t, resp)
    \/ GatherReturns
    \/ Respond

SpecValidPdf == InitPdf /\ [][NextValidPdf]_vars

\* Servers that answer every URL but one with a page whose meta refresh
\* points to that one, and answer that one with a PDF.
Served(url) ==
    IF url = UrlMirrorA
    THEN ValidResponses
    ELSE { [status |-> StatusOK, ctype |-> "text/html", sig |-> FALSE,
            body |-> HtmlBody(UrlMirrorA, None, <<>>, <<>>)] }

\* The pipeline for a batch of generic hosts with these servers.
NextChain ==
    \/ \E t \in Tasks : Acquire(t)
    \/ \E t \in Tasks : \E resp \in Served(req[t].url) : FetchReturns(t, resp)
    \/ GatherReturns
    \/ Respond

SpecChain == InitPdf /\ [][NextChain]_vars

\* The responses _download_single_pdf rejects: a status other than 200, a
\* content type that is neither PDF nor HTML, a PDF type without %PDF.
RejectResponses ==
    { r \in Responses :
         \/ r.status # StatusOK
         \/ ~IsPdfType(r.ctype) /\ ~IsHtmlType(r.ctype)
         \/ IsPdfType(r.ctype) /\ ~r.sig }

\* The pipeline when every GET is rejected or fails on the network.
NextReject ==
    \/ \E t \in Tasks : Acquire(t)
    \/ \E t \in Tasks, resp \in RejectResponses : FetchReturns(t, resp)
    \/ \E t \in Tasks : FetchRaises(t)
    \/ \E t \in Tasks, o \in {"unavailable", "timeout", "pdf_body", "other_body"} :
          BrowserWait(t, o)
    \/ \E t \in Tasks, el \in Elements : BrowserQuery(t, el)
    \/ \E t \in Tasks, o \in {"timeout", "pdf_body", "other_body"} : BrowserClick(t, o)
    \/ GatherReturns
    \/ Respond

SpecReject == Init /\ [][NextReject]_vars

\* The page whose meta refresh points to UrlMirrorA; fetched from UrlMirrorA
\* it points to itself.
SelfPage ==
    [status |-> StatusOK, ctype |-> "text/html", sig |-> FALSE,
     body |-> HtmlBody(UrlMirrorA, None, <<>>, <<>>)]

\* The pipeline when every server answers with that page.
NextSelf ==
    \/ \E t \in Tasks : Acquire(t)
    \/ \E t \in Tasks : FetchReturns(t, SelfPage)
    \/ \E t \in Tasks, o \in {"unavailable", "timeout", "pdf_body", "other_body"} :
          BrowserWait(t, o)
    \/ \E t \in Tasks, el \in Elements : BrowserQuery(t, el)
    \/ \E t \in Tasks, o \in {"timeout", "pdf_body", "other_body"} : BrowserClick(t, o)
    \/ GatherReturns
    \/ Respond

SpecSelf == Init /\ [][NextSelf]_vars

\* The pipeline when the browser never delivers: playwright is missing or
\* fails, no PDF response comes, and every click ends in a timeout.
NextBrowserFails ==
    \/ \E t \in Tasks : Acquire(t)
    \/ \E t \in Tasks, resp \in Responses : FetchReturns(t, resp)
    \/ \E t \in Tasks : FetchRaises(t)
    \/ \E t \in Tasks, o \in {"unavailable", "timeout", "other_body"} :
          BrowserWait(t, o)
    \/ \E t \in Tasks, el \in Elements : BrowserQuery(t, el)
    \/ \E t \in Tasks : BrowserClick(t, "timeout")
    \/ GatherReturns
    \/ Respond

SpecBrowserFails == Init /\ [][NextBrowserFails]_vars

\* ------------------------------------------------------------------------
\* The pure helpers, called on their own
\* ------------------------------------------------------------------------

\* The sequences over S of length 0..n.
SeqsUpTo(S, n) == UNION { [1..k -> S] : k \in 0..n }

\* The fragments URLs are built of, and the URLs given to _extract_pdf_urls:
\* no prefix, a generic host or the ETH bitstream prefix, then any fragments.
UrlTokens == { "/", ".", "pdf", "PDF", "a", "download", "?sequence=", "1" }
LandingUrls ==
    { prefix \o tail : prefix \in { <<>>, Generic, Eth },
                       tail \in SeqsUpTo(UrlTokens, MaxUrlTail) }

\* The titles given to _sanitize_filename: a run of 'a', empty or about as
\* long as the length limit, then any characters.
TitleChars == { ".", "p", "d", "f", "F", ":" }
PadLengths == {0} \cup ((MaxFilenameLen - 3)..(MaxFilenameLen + 1))
Titles ==
    { [i \in 1..n |-> "a"] \o tail : n \in PadLengths,
                                     tail \in SeqsUpTo(TitleChars, MaxTitleTail) }

\* The pages given to _handle_auto_download_page: their URLs, the targets of
\* a meta refresh and of a script redirect, the links next to a download
\* text and the other links of the page, and the cache the call finds.
PageUrls == { UrlLanding, Eth, UrlEthSequence, UrlEthDownload }
MetaTargets == { None, UrlMirrorA, <<"P", ".", "PDF">> }
ScriptTargets == { None, UrlMirrorB }
NearLinks == { <<>>, <<UrlPlain>>, << UrlPlain, <<"n", ".", "pdf">> >> }
OtherLinks == { <<>>, <<UrlPlain>>, << UrlPlain, <<"q", ".", "PDF">> >> }
Caches == SUBSET { Eth, UrlEthDownload }
Pages ==
    { [url |-> u, content |-> HtmlBody(m, sc, n, n \o o), failed |-> f] :
          u \in PageUrls, m \in MetaTargets, sc \in ScriptTargets,
          n \in NearLinks, o \in OtherLinks, f \in Caches }

HelperCall(fn, arg) == [fn |-> fn, arg |-> arg, done |-> FALSE, ret |-> <<>>]

\* One helper is called with one argument; the pipeline is at rest.
InitHelpers ==
    /\ articles = Batch(1)
    /\ max_concurrent = 1
    /\ semaphore = max_concurrent
    /\ pc = [t \in Tasks |-> "waiting"]
    /\ req = [t \in Tasks |-> NoReq]
    /\ failed_urls = {}
    /\ files = [n \in FileNames |-> NoWrite]
    /\ results = [successful |-> <<>>, failed |-> <<>>, total |-> BatchSize]
    /\ batch = "running"
    /\ response = <<>>
    /\ skipped = {}
    /\ first_get = [t \in Tasks |-> None]
    /\ pending = [t \in Tasks |-> {}]
    /\ call \in { HelperCall("_extract_pdf_urls", u) : u \in LandingUrls }
               \cup { HelperCall("_sanitize_filename", n) : n \in Titles }
               \cup { HelperCall("_handle_auto_download_page", pg) : pg \in Pages }

\* _extract_pdf_urls(article_url) returns.
ExtractPdfUrlsReturns ==
    /\ call.fn = "_extract_pdf_urls"
    /\ ~call.done
    /\ call' = [call EXCEPT !.done = TRUE, !.ret = ExtractPdfUrls(call.arg)]
    /\ UNCHANGED << articles, max_concurrent, semaphore, pc, req, failed_urls,
                    files, results, batch, response, skipped, first_get, pending >>

\* _sanitize_filename(filename) returns.
SanitizeFilenameReturns ==
    /\ call.fn = "_sanitize_filename"
    /\ ~call.done
    /\ call' = [call EXCEPT !.done = TRUE, !.ret = SanitizeFilename(call.arg)]
    /\ UNCHANGED << articles, max_concurrent, semaphore, pc, req, failed_urls,
                    files, results, batch, response, skipped, first_get, pending >>

\* _handle_auto_download_page(url, content) returns: its result and the
\* cache it leaves.
HandleAutoDownloadPageReturns ==
    /\ call.fn = "_handle_auto_download_page"
    /\ ~call.done
    /\ call' = [call EXCEPT
                   !.done = TRUE,
                   !.ret = HandleAutoDownloadPage(call.arg.url, call.arg.content,
                                                  call.arg.failed)]
    /\ UNCHANGED << articles, max_concurrent, semaphore, pc, req, failed_urls,
                    files, results, batch, response, skipped, first_get, pending >>

NextHelpers ==
    \/ ExtractPdfUrlsReturns
    \/ SanitizeFilenameReturns
    \/ HandleAutoDownloadPageReturns

SpecHelpers == InitHelpers /\ [][NextHelpers]_vars

\* ------------------------------------------------------------------------
\* Properties
\* ------------------------------------------------------------------------

\* ------------------------------------------------------------------------
\* OriginalScholarSpider.search
\* ------------------------------------------------------------------------

\* range(0, num_results, 10): the offset between two result pages.
PageStep == 10

\* What one pass of the loop can meet.
\*   get       session.get raises, or its content carries a robot keyword
\*             or not
\*   selenium  _get_content_with_selenium gives content or nothing (it
\*             catches its own exceptions), after loads calls of driver.get
\*   divs      the number of "gs_or" divs of the page
\*   fault     -1, or the number of divs handled when an exception is raised
\*             after the content was obtained
DivCounts == { 0, 1, PageStep, MaxDivs }
Faults(k) == { f \in {-1, 0, 1, k} : f <= k }
PageOutcome(g, sel, l, k, f) ==
    [get |-> g, selenium |-> sel, loads |-> l, divs |-> k, fault |-> f]
PageOutcomes ==
    { PageOutcome("raises", "unused", 0, 0, -1) }
    \cup { PageOutcome("robot", "nothing", l, 0, -1) : l \in 0..2 }
    \cup UNION { { PageOutcome("robot", "content", l, k, f) : f \in Faults(k) } :
                 l \in 1..2, k \in DivCounts }
    \cup UNION { { PageOutcome("content", "unused", 0, k, f) : f \in Faults(k) } :
                 k \in DivCounts }

\* search(keyword, num_results) has been called: "articles = []".
SearchCall(num_results) ==
    [fn |-> "search", arg |-> num_results, done |-> FALSE, ret |-> <<>>,
     n |-> 0, at |-> "loop", articles |-> <<>>, gets |-> 0, loads |-> 0,
     last |-> "none"]

\* LimitReached that never holds.
LimitReachedNever(articles_, num_results) == FALSE

\* "if len(articles) >= num_results".
LimitReached(articles_, num_results) == Len(articles_) >= num_results

\* "for i, div in enumerate(mydivs)" over the first 'handled' divs of a page:
\* a div is skipped once the limit is reached, else its article is appended
\* (_parse_gs_or_div returns a record on each of its paths).
RECURSIVE ParseDivs(_, _, _, _, _)
ParseDivs(articles_, page, i, handled, num_results) ==
    IF i > handled THEN articles_
    ELSE IF LimitReached(articles_, num_results)
    THEN ParseDivs(articles_, page, i + 1, handled, num_results)
    ELSE ParseDivs(Append(articles_, <<page, i>>), page, i + 1, handled, num_results)

\* "continue", or the end of the loop body: the loop goes on with the next
\* offset.
Continue(s, last) == [s EXCEPT !.n = @ + PageStep, !.last = last]

\* "break".
Break(s, last) == [s EXCEPT !.at = "ended", !.last = last]

\* One pass of "for n in range(0, num_results, 10)" that meets outcome o.
SearchPass(s, o) ==
    LET got == [s EXCEPT !.gets = @ + 1,
                         !.loads = @ + (IF o.get = "robot" THEN o.loads ELSE 0)]
        handled == IF o.fault = -1 THEN o.divs ELSE o.fault
        parsed == [got EXCEPT !.articles =
                       ParseDivs(@, s.n \div PageStep + 1, 1, handled, s.arg)]
    IN  IF o.get = "raises" THEN Continue(got, "error")
        ELSE IF o.get = "robot" /\ o.selenium = "nothing" THEN Continue(got, "skipped")
        ELSE IF o.fault = 0 THEN Continue(got, "error")
        ELSE IF o.divs = 0 THEN Break(got, "empty")
        ELSE IF o.fault # -1 THEN Continue(parsed, "error")
        ELSE IF LimitReached(parsed.articles, s.arg) THEN Break(parsed, "parsed")
        ELSE Continue(parsed, "parsed")

\* search is called with num_results; the pipeline is at rest.
InitSpider ==
    /\ articles = Batch(1)
    /\ max_concurrent = 1
    /\ semaphore = max_concurrent
    /\ pc = [t \in Tasks |-> "waiting"]
    /\ req = [t \in Tasks |-> NoReq]
    /\ failed_urls = {}
    /\ files = [n \in FileNames |-> NoWrite]
    /\ results = [successful |-> <<>>, failed |-> <<>>, total |-> BatchSize]
    /\ batch = "running"
    /\ response = <<>>
    /\ skipped = {}
    /\ first_get = [t \in Tasks |-> None]
    /\ pending = [t \in Tasks |-> {}]
    /\ call \in { SearchCall(num_results) : num_results \in 0..MaxResults }

\* The loop requests the result page at offset n and handles it.
SearchPage(o) ==
    /\ call.fn = "search"
    /\ ~call.done
    /\ call.at = "loop"
    /\ call.n < call.arg
    /\ call' = SearchPass(call, o)
    /\ UNCHANGED << articles, max_concurrent, semaphore, pc, req, failed_urls,
                    files, results, batch, response, skipped, first_get, pending >>

\* The loop is over, by "break" or at the end of the range: "return articles".
SearchReturns ==
    /\ call.fn = "search"
    /\ ~call.done
    /\ call.at = "ended" \/ call.n >= call.arg
    /\ call' = [call EXCEPT !.done = TRUE, !.ret = call.articles]
    /\ UNCHANGED << articles, max_concurrent, semaphore, pc, req, failed_urls,
                    files, results, batch, response, skipped, first_get, pending >>

NextSpider ==
    \/ \E o \in PageOutcomes : SearchPage(o)
    \/ SearchReturns

SpecSpider == InitSpider /\ [][NextSpider]_vars

\* ------------------------------------------------------------------------
\* Definitions the properties are stated with
\* ------------------------------------------------------------------------

\* Number of entries of a result list that carry the title.
Count(seq, title) == Cardinality({ i \in 1..Len(seq) : seq[i].title = title })

\* Number of articles of the batch that carry the title.
Inputs(title) == Cardinality({ t \in Tasks : articles[t].title = title })

\* The tasks holding a permit: download_article_pdf is in flight.
InFlight == { t \in Tasks : pc[t] \notin {"waiting", "done", "raised"} }

\* Task t sends a GET in this step.
SendsGet(t) == pc'[t] = "fetching" /\ (pc[t] # "fetching" \/ req'[t] # req[t])

\* C1: once download_multiple_pdfs has returned, len(successful) +
\* len(failed) equals total and the batch size, and every input title occurs
\* in the two lists together exactly as often as in the input.
C1_BatchComplete ==
    batch # "running" =>
        /\ Len(results.successful) + Len(results.failed) = results.total
        /\ results.total = BatchSize
        /\ \A t \in Tasks :
              Count(results.successful, articles[t].title)
                + Count(results.failed, articles[t].title)
              = Inputs(articles[t].title)

\* C2: at most max_concurrent retrievals are in flight, in every state.
C2_ConcurrencyCap == Cardinality(InFlight) <= max_concurrent

\* C2 witness: the limit is reached while another task waits for a permit.
C2_Witness ==
    /\ Cardinality(InFlight) = max_concurrent
    /\ \E t \in Tasks : pc[t] = "waiting"

\* C3: a file the HTTP path wrote comes from a response with status 200, a
\* PDF or octet-stream content type and a body that starts with %PDF.
C3_HttpWriteValid ==
    \A n \in FileNames :
        files[n].via = "http" =>
            /\ files[n].status = 200
            /\ files[n].ctype \in {"application/pdf", "application/octet-stream"}
            /\ files[n].sig

\* C3 witness: the HTTP path has written a file.
C3_Witness == \E n \in FileNames : files[n].via = "http"

\* C4: every file at a destination path starts with the %PDF signature.
C4_FilesHaveSignature ==
    \A n \in FileNames : files[n].via # "none" => files[n].sig

\* C5: a call of download_article_pdf that finds its destination file sends
\* no GET, starts no browser, writes nothing and reports the existing path.
C5_ExistingFileShortCircuit ==
    [][\A t \in Tasks :
          (/\ pc[t] = "waiting"
           /\ pc'[t] # "waiting"
           /\ files[FilepathOf[articles[t]]].via # "none")
          => /\ pc'[t] = "done"
             /\ req'[t] = NoReq
             /\ first_get'[t] = None
             /\ files' = files
             /\ results'.failed = results.failed
             /\ results'.successful =
                   Append(results.successful,
                          [title |-> articles[t].title,
                           filepath |-> FilepathOf[articles[t]]])]_vars

\* C5 witness: with one permit, the second of two articles with the same
\* destination ran after the first had succeeded, and succeeded without a GET.
C5_Witness ==
    /\ max_concurrent = 1
    /\ FilepathOf[articles[1]] = FilepathOf[articles[2]]
    /\ pc[1] = "done" /\ pc[2] = "done"
    /\ Len(results.successful) = 2
    /\ results.successful[1].filepath = results.successful[2].filepath
    /\ first_get[1] # None
    /\ first_get[2] = None

\* C6: a GET is only sent at recursion depths 0..3, as at most the fourth GET
\* of its chain, and after a GET at depth 3 the next GET of the task, if any,
\* starts a new chain at depth 0 (for a candidate: the next candidate).
C6_ChainBounded ==
    [][\A t \in Tasks :
          /\ pc'[t] = "fetching" => (req'[t].depth \in 0..3 /\ req'[t].gets <= 4)
          /\ (pc[t] = "fetching" /\ req[t].depth = 3 /\ SendsGet(t))
             => (req'[t].depth = 0
                 /\ (req[t].origin = "candidate" => req'[t].idx > req[t].idx))]_vars

\* C6 witness: the mirrors, which point at each other, have been followed to
\* the fourth GET of a chain.
C6_Witness ==
    \E t \in Tasks :
        /\ pc[t] = "fetching"
        /\ req[t].depth = 3
        /\ req[t].gets = 4
        /\ req[t].url \in {UrlMirrorA, UrlMirrorB}

\* C7: no GET is ever sent to a URL that is in failed_urls.
C7_NoGetToCachedUrl ==
    [][\A t \in Tasks :
          SendsGet(t) => (req'[t].url \notin failed_urls
                          /\ req'[t].url \notin failed_urls')]_vars

\* C7 witness: a URL of the cache has been refused.
C7_Witness == \E u \in skipped : u \in failed_urls

\* C8: when every response is a redirect page and the cache is still empty,
\* a chain that ends (the task leaves it without following the page to a
\* further GET of the same chain) leaves its current URL in failed_urls.
C8_DeadEndRecorded ==
    [][\A t \in Tasks :
          (/\ pc[t] = "fetching"
           /\ failed_urls = {}
           /\ req'[t] # req[t]
           /\ ~(pc'[t] = "fetching" /\ req'[t].gets = req[t].gets + 1))
          => req[t].url \in failed_urls']_vars

\* C9: when the batch is back, every task that did not end by an exception
\* has run to completion and is recorded once, whatever happened to others.
C9_FaultIsolated ==
    batch # "running" =>
        \A t \in Tasks :
            pc[t] # "raised" =>
                /\ pc[t] = "done"
                /\ Count(results.successful, articles[t].title)
                     + Count(results.failed, articles[t].title) = 1

\* C9 witness: with one permit, the first task ended by an exception and the
\* second ran afterwards and is in the results.
C9_Witness ==
    /\ max_concurrent = 1
    /\ batch = "returned"
    /\ pc[1] = "raised"
    /\ pc[2] = "done"
    /\ first_get[2] # None
    /\ Len(results.successful) + Len(results.failed) = 1

Extracted == call.fn = "_extract_pdf_urls" /\ call.done

\* The tokens that spell the extension, in either case.
DotPdfTokens == { "pdf", "PDF" }

\* The URL ends in .pdf, in either case.
EndsInDotPdf(url) ==
    /\ Len(url) >= 2
    /\ url[Len(url) - 1] = "."
    /\ url[Len(url)] \in DotPdfTokens

\* The variant of a URL for suffix k of pdf_suffixes.
Variant(url, k) == RStripSlash(url) \o PdfSuffixes[k]

\* C11: for every URL string the list _extract_pdf_urls returns is finite and
\* non-empty: it has between one and seven entries.
C11_CandidatesNonEmpty ==
    Extracted => Len(call.ret) \in 1..(Len(PdfSuffixes) + 1)

\* C11 witness: a URL of no recognized host and without any PDF indicator
\* has got its candidates.
C11_Witness ==
    /\ Extracted
    /\ ~Contains(call.arg, EthHost)
    /\ \A i \in 1..Len(call.arg) : call.arg[i] \notin {"pdf", "PDF", "download"}
    /\ Len(call.ret) = Len(PdfSuffixes)

\* C12 as stated: for a URL that ends in .pdf the list is that URL alone.
C12_DotPdfSole ==
    (Extracted /\ EndsInDotPdf(call.arg)) => call.ret = <<call.arg>>

\* C12 amended: for a URL that ends in .pdf the list starts with that URL;
\* unless it is an ETH bitstream URL, the six suffix variants of the URL
\* follow it in their fixed order.
C12_DotPdfFirst ==
    (Extracted /\ EndsInDotPdf(call.arg)) =>
        /\ call.ret[1] = call.arg
        /\ ~(Contains(call.arg, EthHost) /\ Contains(call.arg, BitstreamHandle))
           => call.ret = <<call.arg>> \o [k \in 1..Len(PdfSuffixes) |->
                                            Variant(call.arg, k)]

\* C12 witness: a URL of a generic host that ends in .pdf has got seven
\* candidates, itself first.
C12_Witness ==
    /\ Extracted
    /\ EndsInDotPdf(call.arg)
    /\ ~Contains(call.arg, EthHost)
    /\ Len(call.ret) = Len(PdfSuffixes) + 1
    /\ call.ret[1] = call.arg

\* C13: the list holds no URL twice; the URL itself, when it is in the list,
\* is its first entry and no later entry equals it; the suffix variants
\* stand in the order of pdf_suffixes.
C13_NoDuplicatesInOrder ==
    Extracted =>
        /\ \A i, j \in 1..Len(call.ret) : call.ret[i] = call.ret[j] => i = j
        /\ \A i \in 2..Len(call.ret) : call.ret[i] # call.arg
        /\ \A i, j \in 1..Len(call.ret), k, l \in 1..Len(PdfSuffixes) :
              (/\ i < j
               /\ call.ret[i] = Variant(call.arg, k)
               /\ call.ret[j] = Variant(call.arg, l)) => k < l

\* C13 witness: a URL that is a candidate itself and ends in '/' has got
\* itself and then its six variants.
C13_Witness ==
    /\ Extracted
    /\ Len(call.arg) > 0 /\ call.arg[Len(call.arg)] = "/"
    /\ Len(call.ret) = Len(PdfSuffixes) + 1
    /\ call.ret[1] = call.arg
    /\ call.ret[2] = Variant(call.arg, 1)
    /\ call.ret[Len(call.ret)] = Variant(call.arg, Len(PdfSuffixes))

\* C18: for every title the name _sanitize_filename returns has at most 200
\* characters, ends in .pdf (in either case) and holds none of the
\* characters < > : " / \ | ? *.
C18_SafeName ==
    (call.fn = "_sanitize_filename" /\ call.done) =>
        /\ Len(call.ret) <= 200
        /\ Len(call.ret) >= 4
        /\ \A j \in 1..4 :
              LowerTok(call.ret[Len(call.ret) - 4 + j]) = <<".", "p", "d", "f">>[j]
        /\ \A i \in 1..Len(call.ret) :
              call.ret[i] \notin {"<", ">", ":", "\"", "/", "\\", "|", "?", "*"}

\* The task is inside _download_with_browser: at one of its awaits, or at the
\* GET of a link the browser found.
InBrowserStage(p, r) ==
    \/ p \in {"browser_wait", "browser_query", "browser_click"}
    \/ p = "fetching" /\ r.origin = "selector"

\* Candidate k of task t has been tried when this step ends: its GET was
\* sent before, or _download_single_pdf refuses it from the cache.
TriedAfterStep(t, k) ==
    \/ pc[t] = "fetching" /\ req[t].origin = "candidate" /\ k <= req[t].idx
    \/ TaskCandidates(t)[k] \in failed_urls'

PlainHost(t) ==
    /\ TaskUrl(t) # None
    /\ \A site \in { <<"research-collection.ethz.ch">>, <<"ieeexplore.ieee.org">>,
                      <<"link.springer.com">>, <<"dl.acm.org">> } :
          ~Contains(TaskUrl(t), site)

\* C15: when every response is a 404, a target whose host is not browser
\* required sends one GET to each candidate in turn, never enters the
\* browser fallback, and ends, at the response of its last candidate, as a
\* failure: one entry with its title and URL in the failed list, none in the
\* successful list, no file written.
C15_AllRejected ==
    [][\A t \in Tasks :
          PlainHost(t) =>
              /\ ~InBrowserStage(pc'[t], req'[t])
              /\ pc'[t] # "raised"
              /\ files'[FilepathOf[articles[t]]].via = "none"
              /\ SendsGet(t)
                 => /\ req'[t].origin = "candidate" /\ req'[t].depth = 0
                    /\ req'[t].url = TaskCandidates(t)[req'[t].idx]
                    /\ req'[t].idx = IF pc[t] = "waiting" THEN 1 ELSE req[t].idx + 1
              /\ (pc[t] # "done" /\ pc'[t] = "done")
                 => /\ pc[t] = "fetching"
                    /\ req[t].idx = Len(TaskCandidates(t))
                    /\ results'.failed =
                          Append(results.failed,
                                 [title |-> articles[t].title, url |-> TaskUrl(t)])
                    /\ results'.successful = results.successful]_vars

\* C15 witness: the batch is back and holds a target of a plain host that
\* began with its first candidate and is in the failed list.
C15_Witness ==
    /\ batch = "returned"
    /\ \E t \in Tasks :
          /\ PlainHost(t)
          /\ pc[t] = "done"
          /\ first_get[t] = TaskCandidates(t)[1]
          /\ \E i \in 1..Len(results.failed) :
                results.failed[i].title = articles[t].title

\* C16: when the browser never delivers, a task that leaves one of the awaits
\* of _download_with_browser never ends by an exception; when it ends, it is
\* appended to the failed list and to no other, writes nothing and gives its
\* permit back; the other tasks and the batch are left as they were.
C16_BrowserFailureIsOutcome ==
    [][\A t \in Tasks :
          (/\ pc[t] \in {"browser_wait", "browser_query", "browser_click"}
           /\ (pc'[t] # pc[t] \/ req'[t] # req[t]))
          => /\ pc'[t] # "raised"
             /\ pc'[t] = "done"
                => /\ results'.failed =
                         Append(results.failed,
                                [title |-> articles[t].title, url |-> TaskUrl(t)])
                   /\ results'.successful = results.successful
                   /\ files' = files
                   /\ semaphore' = semaphore + 1
             /\ \A u \in Tasks \ {t} : pc'[u] = pc[u] /\ req'[u] = req[u]
             /\ batch' = batch]_vars

\* C16 witness: with one permit, the first task went through the browser
\* fallback without a file, the second ran after it, and the batch is back
\* with both in the failed list.
C16_Witness ==
    /\ max_concurrent = 1
    /\ batch = "returned"
    /\ Contains(TaskUrl(1), <<"research-collection.ethz.ch">>)
    /\ pc[1] = "done" /\ pc[2] = "done"
    /\ first_get[2] # None
    /\ Len(results.failed) = 2
    /\ results.failed[1].title = articles[1].title
    /\ \A n \in FileNames : files[n].via = "none"

\* C17: no call of download_article_pdf ends by an exception.
C17_NeverRaises == \A t \in Tasks : pc[t] # "raised"

\* C19: a target has at most one GET in flight, the one its task awaits.
C19_OneFetchPerTarget ==
    \A t \in Tasks :
        /\ Cardinality(pending[t]) <= 1
        /\ pending[t] # {} => (pc[t] = "fetching" /\ pending[t] = {req[t].url})

\* C19 witness: one task awaits the GET of a later candidate or, in a chain
\* of redirect pages, of a URL past the first.
C19_Witness ==
    \E t \in Tasks :
        /\ pending[t] = {req[t].url}
        /\ req[t].gets >= 2
        /\ req[t].idx >= 2

\* C20: a file that has been written is not written again with another
\* content: no two tasks write to the same destination path.
C20_NoOverwrite ==
    [][\A n \in FileNames : files[n].via # "none" => files'[n] = files[n]]_vars

\* The URL is one the resolver records as failed when its page is HTML: an
\* ETH bitstream URL that ends in /download.
EthDeadEnd(url) ==
    /\ Contains(url, <<"research-collection.ethz.ch">>)
    /\ Contains(url, <<"bitstream", "/", "handle">>)
    /\ Len(url) >= 2
    /\ url[Len(url) - 1] = "/" /\ url[Len(url)] = "download"

\* C21: when every response is a redirect page, the step of a task that got
\* the page of an ETH /download URL leaves that URL in failed_urls; no step
\* of any task takes a URL out of failed_urls; and no task sends a GET to a
\* URL that is in failed_urls when its step ends.
C21_NoLostUpdate ==
    [][/\ \A u \in failed_urls : u \in failed_urls'
       /\ \A t \in Tasks :
             /\ (/\ pc[t] = "fetching"
                 /\ EthDeadEnd(req[t].url)
                 /\ (pc'[t] # pc[t] \/ req'[t] # req[t]))
                => req[t].url \in failed_urls'
             /\ SendsGet(t) => req'[t].url \notin failed_urls']_vars

\* C21 witness: two tasks are in flight; one fetched the ETH /download URL,
\* the other, whose URL is the same and its own first candidate, never sent
\* a GET: it found the URL in the cache.
C21_Witness ==
    \E t, u \in Tasks :
        /\ t # u
        /\ first_get[t] = UrlEthDownload
        /\ pc[t] \in {"browser_wait", "browser_query", "browser_click"}
        /\ TaskUrl(u) = UrlEthDownload
        /\ first_get[u] = None
        /\ pc[u] = "browser_wait"
        /\ UrlEthDownload \in failed_urls
        /\ UrlEthDownload \in skipped

\* C22: no step takes a URL out of failed_urls; a GET is only sent to a URL
\* that was not in failed_urls when the step began; and a URL that
\* _download_single_pdf refuses in a step is in failed_urls.
C22_AppendOnlyConsulted ==
    [][/\ failed_urls \subseteq failed_urls'
       /\ \A t \in Tasks : SendsGet(t) => req'[t].url \notin failed_urls
       /\ skipped \subseteq skipped'
       /\ \A u \in skipped' \ skipped : u \in failed_urls']_vars

\* C22 witness: a URL is in the cache and has been refused, and a task has
\* since sent a GET to another URL.
C22_Witness ==
    \E t \in Tasks :
        /\ UrlEthDownload \in failed_urls
        /\ UrlEthDownload \in skipped
        /\ pc[t] = "fetching"
        /\ req[t].origin = "selector"
        /\ req[t].url # UrlEthDownload

\* _handle_auto_download_page has returned for the page it was called with.
Resolved == call.fn = "_handle_auto_download_page" /\ call.done

\* The page URL is an ETH bitstream URL.
EthPage(url) ==
    /\ Contains(url, <<"research-collection.ethz.ch">>)
    /\ Contains(url, <<"bitstream", "/", "handle">>)

\* C23 as stated: the resolver leaves the cache as it found it, and its
\* result is the one it gives for the same page with an empty cache.
C23_ResolverPure ==
    Resolved =>
        /\ call.ret.failed = call.arg.failed
        /\ call.ret.ret =
              HandleAutoDownloadPage(call.arg.url, call.arg.content, {}).ret

\* C23 amended: the resolver sends no GET and takes nothing out of the cache.
\* For a page that is not an ETH bitstream URL it leaves the cache unchanged
\* and its result is given by the URL and the body alone.  For an ETH
\* bitstream URL it consults the cache, and when it returns nothing for a URL
\* that ends in /download, it has added that URL to the cache.
C23_ResolverFrame ==
    Resolved =>
        /\ \A t \in Tasks : pending[t] = {}
        /\ call.arg.failed \subseteq call.ret.failed
        /\ ~EthPage(call.arg.url)
           => /\ call.ret.failed = call.arg.failed
              /\ call.ret.ret = GenericResolve(call.arg.url, call.arg.content)
        /\ EthPage(call.arg.url)
           => call.ret.failed =
                 IF EthDeadEnd(call.arg.url) /\ call.ret.ret = None
                 THEN call.arg.failed \cup {call.arg.url}
                 ELSE call.arg.failed

\* C23 witness: the resolver was given the page of an ETH /download URL and
\* left that URL in a cache that did not hold it.
C23_Witness ==
    /\ Resolved
    /\ EthDeadEnd(call.arg.url)
    /\ call.arg.url \notin call.arg.failed
    /\ call.arg.url \in call.ret.failed
    /\ call.ret.ret = None

\* The target the four rules name for a page, first match wins: the
\* meta refresh, the script redirect, the first link next to a download text
\* that looks like a PDF link, the first link that ends in .pdf.
FirstRuleTarget(pg) ==
    IF pg.content.meta # None THEN pg.content.meta
    ELSE IF pg.content.script # None THEN pg.content.script
    ELSE IF FirstValidPdfUrl(pg.content.near, 1) # None
    THEN FirstValidPdfUrl(pg.content.near, 1)
    ELSE FirstDotPdf(pg.content.links, 1)

\* C28: for every page the result of the resolver is the target of the first
\* rule that matches, made absolute against the directory of the page URL,
\* and nothing when no rule matches.
C28_FirstRuleWins ==
    Resolved =>
        call.ret.ret =
            IF FirstRuleTarget(call.arg) = None THEN None
            ELSE Absolute(call.arg.url, FirstRuleTarget(call.arg))

\* C28 restricted to pages that are not ETH bitstream URLs.
C28_FirstRuleWinsGeneric ==
    (Resolved /\ ~EthPage(call.arg.url)) =>
        call.ret.ret =
            IF FirstRuleTarget(call.arg) = None THEN None
            ELSE Absolute(call.arg.url, FirstRuleTarget(call.arg))

\* Task t takes a step.
Steps(t) == pc'[t] # pc[t] \/ req'[t] # req[t]

\* The file of task t holds a PDF that came over HTTP.
HasPdf(fs, t) ==
    /\ fs[FilepathOf[articles[t]]].via = "http"
    /\ fs[FilepathOf[articles[t]]].status = 200
    /\ fs[FilepathOf[articles[t]]].sig

\* Task t is appended to the successful list, with its destination path.
ReportedSuccessful(t) ==
    /\ results'.successful =
          Append(results.successful,
                 [title |-> articles[t].title,
                  filepath |-> FilepathOf[articles[t]]])
    /\ results'.failed = results.failed

\* C24: for a target whose URL ends in .pdf and whose server answers with a
\* PDF, the only GET goes to the URL itself, its response ends the task, the
\* file is at the sanitized path and the target is reported successful.
C24_DirectPdf ==
    [][\A t \in Tasks :
          /\ SendsGet(t)
             => /\ pc[t] = "waiting"
                /\ req'[t].url = TaskUrl(t)
                /\ req'[t].gets = 1
          /\ (pc[t] = "waiting" /\ Steps(t)
                 /\ files[FilepathOf[articles[t]]].via = "none")
             => pc'[t] = "fetching"
          /\ (pc[t] = "fetching" /\ Steps(t))
             => /\ pc'[t] = "done"
                /\ pending'[t] = {}
                /\ HasPdf(files', t)
                /\ ReportedSuccessful(t)]_vars

\* C24 witness: two different targets of the batch have each sent one GET,
\* to their own URL, and the batch is back with both files and both
\* reported successful.
C24_Witness ==
    /\ batch = "returned"
    /\ articles[1] # articles[2]
    /\ \A t \in {1, 2} :
          /\ EndsInDotPdf(TaskUrl(t))
          /\ first_get[t] = TaskUrl(t)
          /\ pc[t] = "done"
          /\ HasPdf(files, t)
    /\ Len(results.successful) >= 2

Returns(t) == pc[t] \notin {"done", "raised"} /\ pc'[t] = "done"

\* C26: the lists of the result change only in the step in which a task
\* ends, and then by one entry for that task put at the end of one list: the
\* lists stand in the order in which the tasks ended.
C26_CompletionOrder ==
    [][/\ results' # results => \E t \in Tasks : Returns(t)
       /\ \A t \in Tasks :
             Returns(t) =>
                 \/ /\ results'.successful =
                          Append(results.successful,
                                 [title |-> articles[t].title,
                                  filepath |-> FilepathOf[articles[t]]])
                    /\ results'.failed = results.failed
                 \/ /\ results'.failed =
                          Append(results.failed,
                                 [title |-> articles[t].title, url |-> TaskUrl(t)])
                    /\ results'.successful = results.successful]_vars

\* C26 witness: both targets succeeded and the second of the input stands
\* first in the successful list.
C26_Witness ==
    /\ articles[1].title # articles[2].title
    /\ Len(results.successful) = 2
    /\ results.successful[1].title = articles[2].title
    /\ results.successful[2].title = articles[1].title

\* C27: when every GET is rejected or fails on the network, the step that
\* ends a GET writes no file, leaves the cache alone, starts no GET at a
\* depth above 0 and does not end the task by an exception; for a candidate
\* that is not the last, the task goes on with a GET to the next candidate;
\* after the last it enters the browser fallback or ends as a failure.
C27_RejectFallsThrough ==
    [][\A t \in Tasks :
          (pc[t] = "fetching" /\ Steps(t))
          => /\ files' = files
             /\ failed_urls' = failed_urls
             /\ pc'[t] # "raised"
             /\ pc'[t] = "fetching" => req'[t].depth = 0
             /\ (req[t].origin = "candidate" /\ req[t].idx < Len(TaskCandidates(t)))
                => /\ pc'[t] = "fetching"
                   /\ req'[t].origin = "candidate"
                   /\ req'[t].idx = req[t].idx + 1
                   /\ req'[t].url = TaskCandidates(t)[req[t].idx + 1]
             /\ (req[t].origin = "candidate" /\ req[t].idx = Len(TaskCandidates(t)))
                => \/ pc'[t] = "browser_wait"
                   \/ /\ pc'[t] = "done"
                      /\ results'.failed =
                            Append(results.failed,
                                   [title |-> articles[t].title, url |-> TaskUrl(t)])
                      /\ results'.successful = results.successful]_vars

\* C27 witness: a target with six candidates awaits the GET of its last one,
\* and no file has been written.
C27_Witness ==
    /\ \A n \in FileNames : files[n].via = "none"
    /\ \E t \in Tasks :
          /\ pc[t] = "fetching"
          /\ req[t].origin = "candidate"
          /\ Len(TaskCandidates(t)) = 6
          /\ req[t].idx = 6

\* C29: when the page fetched from a URL redirects to that same URL, the
\* step that handles it sends no GET within the chain and writes nothing; a
\* candidate chain is followed by a GET to the next candidate at depth 0, or,
\* after the last candidate, by the browser fallback or a failure.
C29_NoSelfRecursion ==
    [][\A t \in Tasks :
          (pc[t] = "fetching" /\ req[t].url = UrlMirrorA /\ Steps(t))
          => /\ files' = files
             /\ pc'[t] = "fetching"
                => /\ req'[t].depth = 0
                   /\ req'[t].gets = 1
                   /\ req'[t].url # UrlMirrorA
             /\ (req[t].origin = "candidate" /\ req[t].idx < Len(TaskCandidates(t)))
                => /\ pc'[t] = "fetching"
                   /\ req'[t].idx = req[t].idx + 1
                   /\ req'[t].url = TaskCandidates(t)[req[t].idx + 1]
             /\ (req[t].origin = "candidate" /\ req[t].idx = Len(TaskCandidates(t)))
                => pc'[t] \in {"browser_wait", "done"}]_vars

\* C29 witness: the chain of a first candidate ended at the page that
\* redirects to itself, and the task is at that page again, now in the chain
\* of a later candidate.
C29_Witness ==
    \E t \in Tasks :
        /\ pc[t] = "fetching"
        /\ req[t].origin = "candidate"
        /\ req[t].idx >= 2
        /\ req[t].url = UrlMirrorA
        /\ req[t].depth = 1

\* C30: the step in which a task writes its file from a response ends the
\* task: it sends no further GET, does not enter the browser fallback, and is
\* appended to the successful list with the sanitized destination path; a
\* task that has ended never runs again.
C30_StopsAtFirstValid ==
    [][\A t \in Tasks :
          /\ (/\ pc[t] = "fetching"
              /\ Steps(t)
              /\ files'[FilepathOf[articles[t]]] # files[FilepathOf[articles[t]]])
             => /\ pc'[t] = "done"
                /\ req'[t] = NoReq
                /\ pending'[t] = {}
                /\ HasPdf(files', t)
                /\ ReportedSuccessful(t)
          /\ pc[t] = "done"
             => (pc'[t] = "done" /\ req'[t] = NoReq /\ pending'[t] = {})]_vars

\* C30 witness: a target with several candidates has ended with its file
\* written over HTTP, is in the successful list, and the batch is back.
C30_Witness ==
    /\ batch = "returned"
    /\ \E t \in Tasks :
          /\ pc[t] = "done"
          /\ Len(TaskCandidates(t)) >= 2
          /\ first_get[t] # None
          /\ HasPdf(files, t)
          /\ \E i \in 1..Len(results.successful) :
                /\ results.successful[i].title = articles[t].title
                /\ results.successful[i].filepath = FilepathOf[articles[t]]

\* The part of a URL before its first ?sequence= token.
BeforeSequence(url) ==
    LET at == CHOOSE i \in 1..Len(url) :
                  /\ url[i] = "?sequence="
                  /\ \A k \in 1..(i - 1) : url[k] # "?sequence="
    IN  SubSeq(url, 1, at - 1)

\* C34: for an ETH bitstream URL the list is the URL itself, followed, when
\* the URL contains ?sequence=, by the URL up to that part, and nothing
\* else: no entry is a suffix variant of the URL.
C34_EthCandidates ==
    (Extracted /\ EthPage(call.arg)) =>
        /\ call.ret =
              IF \E i \in 1..Len(call.arg) : call.arg[i] = "?sequence="
              THEN <<call.arg, BeforeSequence(call.arg)>>
              ELSE <<call.arg>>
        /\ \A i \in 1..Len(call.ret), k \in 1..Len(PdfSuffixes) :
              call.ret[i] # Variant(call.arg, k)

\* C34 witness: an ETH bitstream URL with ?sequence= has got two candidates,
\* and one that ends in /download has got itself alone.
C34_Witness ==
    /\ Extracted
    /\ EthPage(call.arg)
    /\ \/ /\ call.arg[Len(call.arg) - 1] = "?sequence="
          /\ Len(call.ret) = 2
          /\ call.ret[2] = SubSeq(call.arg, 1, Len(call.arg) - 2)
       \/ /\ call.arg[Len(call.arg)] = "download"
          /\ call.ret = <<call.arg>>

\* Task t is appended to the failed list.
ReportedFailed(t) ==
    /\ results'.failed =
          Append(results.failed,
                 [title |-> articles[t].title, url |-> TaskUrl(t)])
    /\ results'.successful = results.successful

C33_NoRefetch ==
    [][\A t \in Tasks :
          (pc[t] = "fetching" /\ SendsGet(t)) => req'[t].url # req[t].url]_vars

\* The case C33 fails on: a task fetched the URL without ?sequence= as a
\* step of the chain of its first candidate and fetches it again as its
\* second candidate.
C33_Refetched ==
    \E t \in Tasks :
        /\ TaskUrl(t) = UrlEthSequence
        /\ pc[t] = "fetching"
        /\ req[t].url = Eth
        /\ req[t].depth = 0
        /\ req[t].idx = 2
        /\ first_get[t] = UrlEthSequence

\* C31: every batch comes back: each task ends, by return or by exception,
\* download_multiple_pdfs returns, and from then on every permit of the
\* semaphore is free.
C31_BatchTerminates ==
    <>[](/\ batch # "running"
         /\ \A t \in Tasks : pc[t] \in {"done", "raised"}
         /\ semaphore = max_concurrent)

\* C31 witness: with one permit, the first task left by exception, the
\* second one took the permit after it and returned, and the batch is back
\* with the permit free.
C31_Witness ==
    /\ max_concurrent = 1
    /\ BatchSize > max_concurrent
    /\ pc[1] = "raised"
    /\ pc[2] = "done"
    /\ batch = "returned"
    /\ semaphore = max_concurrent

====
